---- MODULE Spec2Model ----
(***************************************************************************)
(* Model of src/src/jwt_helper.rs: JWTHelper, an RS256 JWT issuer          *)
(* (generate_token) and verifier (validate_token) over the jsonwebtoken,   *)
(* rsa and chrono crates.                                                  *)
(*                                                                         *)
(* A token is modelled by its three decoded segments: the header (its alg  *)
(* member), the payload (a JSON object: a function from member names to    *)
(* JSON values) and the signature.  An RSA signature is the deterministic  *)
(* function Sign(key, header, payload) of an ideal signature scheme: it    *)
(* verifies only under the matching public key over the same message.      *)
(* Machine integers are scaled from 64 to WordBits bits.                   *)
(***************************************************************************)
EXTENDS Integers, FiniteSets, Sequences, TLC

VARIABLES helper, now, subjectIn, issuedAt, genResult, presented, valAt, valResult

vars == <<helper, now, subjectIn, issuedAt, genResult, presented, valAt, valResult>>

(***************************** bounds **************************************)
\* width of usize / i64 / u64 in the model (64 in the program)
WordBits == 16
\* the wall clock runs from 0 to MaxClock seconds
MaxClock == 4
\* largest expiry_secs / leeway configured in the lifecycle specification
MaxExpiry == 2
MaxLeeway == 1
\* most seconds the clock advances between the two clock reads of generate_token
MaxDelay == 2

(************************ machine integers *********************************)
Pow2(n) == 2 ^ n
UsizeMax == Pow2(WordBits) - 1
I64Max == Pow2(WordBits - 1) - 1
I64Min == 0 - Pow2(WordBits - 1)

\* `x as i64` for an unsigned word x: two's complement reinterpretation
AsI64(x) == IF x > I64Max THEN x - Pow2(WordBits) ELSE x

\* `x as usize` for a signed word x
AsUsize(x) == x % Pow2(WordBits)

\* i64 wrapping of a mathematical sum (release build)
WrapI64(x) == AsI64(x % Pow2(WordBits))

\* chrono: a Duration holds at most i64::MAX milliseconds
MILLIS_PER_SEC == 1000
DurationMaxSecs == I64Max \div MILLIS_PER_SEC

(***************************** values **************************************)
None == [none |-> TRUE]
Some(x) == [some |-> x]
IsSome(o) == "some" \in DOMAIN o

Ok(v) == [ok |-> v]
Err(e) == [err |-> e]
Panic(m) == [panic |-> m]
IsOk(r) == "ok" \in DOMAIN r
IsErr(r) == "err" \in DOMAIN r
IsPanic(r) == "panic" \in DOMAIN r

ALGORITHM == "RS256"
SECRET_ABSENT == "pvt_key_secret is required for generating token."
PVT_KEY_ABSENT == "encrypted_pvt_key is required for generating token."
PUB_KEY_ABSENT == "pub_key is required for verifying token."

PVT_KEY_SECRET == "testpassword"
Subjects == {"", "user_123"}
KeyPairs == {"A", "B"}

\* an encrypted PKCS#8 PEM: key pair k under pass-phrase p, or text that is no PEM
EncryptedPem(k, p) == [key |-> k, pass |-> p]
MalformedPem == [garbage |-> TRUE]

\* JSON values and objects
Num(n) == [num |-> n]
Str(s) == [str |-> s]
IsNum(v) == "num" \in DOMAIN v
IsStr(v) == "str" \in DOMAIN v

(************************* generate_token **********************************)
\* Duration::seconds(secs).num_seconds(): panics outside the Duration range
DurationSeconds(secs) ==
    IF secs > DurationMaxSecs \/ secs < 0 - DurationMaxSecs
    THEN Panic("Duration::seconds out of bounds")
    ELSE Ok(secs)

\* exp taken from the clock reading alone, the expiry never added
ExpOutcomesNoExpiry(t, expiry_secs) == {Ok(AsUsize(t))}

\* (Utc::now().timestamp() + Duration::seconds(expiry_secs as i64).num_seconds()) as usize
\* the outcomes of line 33 at clock reading t: i64 addition overflow panics in
\* a debug build and wraps in a release build
ExpOutcomes(t, expiry_secs) ==
    LET d == DurationSeconds(AsI64(expiry_secs))
    IN  IF IsPanic(d) THEN {d}
        ELSE LET sum == t + d.ok
             IN  IF sum > I64Max \/ sum < I64Min
                 THEN {Panic("attempt to add with overflow"), Ok(AsUsize(WrapI64(sum)))}
                 ELSE {Ok(AsUsize(sum))}

\* Claims { exp, iat, sub }
Claims(exp, iat, sub) == [exp |-> exp, iat |-> iat, sub |-> sub]

\* serde_json serialisation of Claims: the JSON object with exactly its three members
Serialize(claims) ==
    [n \in {"exp", "iat", "sub"} |->
        CASE n = "exp" -> Num(claims.exp)
          [] n = "iat" -> Num(claims.iat)
          [] n = "sub" -> Str(claims.sub)]

\* Header::new(ALGORITHM)
Header(alg) == [alg |-> alg, typ |-> "JWT"]

\* RSASSA-PKCS1-v1_5 signature of key pair k over header and payload
Sign(k, header, payload) == [signer |-> k, hdr |-> header, pl |-> payload]

\* encode(&header, &claims, &key): the compact token of three segments
Encode(header, claims, k) ==
    [nseg |-> 3, header |-> header, payload |-> Serialize(claims),
     sig |-> Sign(k, header, Serialize(claims))]

\* RsaPrivateKey::from_pkcs8_encrypted_pem(pem, secret)
FromPkcs8EncryptedPem(pem, secret) ==
    IF "key" \in DOMAIN pem /\ pem.pass = secret THEN Ok(pem.key) ELSE Err("Pkcs8")

\* lines 38-44 of generate_token, once the claims are built
SignClaims(h, claims) ==
    IF ~IsSome(h.encrypted_pvt_key) THEN Panic(PVT_KEY_ABSENT)
    ELSE IF ~IsSome(h.pvt_key_secret) THEN Panic(SECRET_ABSENT)
    ELSE LET decrypted_key == FromPkcs8EncryptedPem(h.encrypted_pvt_key.some, h.pvt_key_secret.some)
         IN  IF IsErr(decrypted_key) THEN decrypted_key
             ELSE Ok(Encode(Header(ALGORITHM), claims, decrypted_key.ok))

\* generate_token(subject) when the first clock read returns t1 and the second t2
GenerateResults(h, subject, t1, t2) ==
    {IF IsPanic(e) THEN e ELSE SignClaims(h, Claims(e.ok, AsUsize(t2), subject)) :
        e \in ExpOutcomes(t1, h.expiry_secs)}

\* generate_token: the clock advances by d seconds between its two reads
generate_token(subject, d) ==
    /\ genResult' \in GenerateResults(helper, subject, now, now + d)
    /\ subjectIn' = subject
    /\ issuedAt' = now
    /\ now' = now + d
    /\ UNCHANGED <<helper, presented, valAt, valResult>>

(************************* validate_token **********************************)
\* the alg names jsonwebtoken's Algorithm enum deserialises; "none" is not one
KnownAlgorithms == {"HS256", "HS384", "HS512", "ES256", "ES384", "RS256", "RS384",
                    "RS512", "PS256", "PS384", "PS512", "EdDSA"}

\* a signature segment that is not a signature made by a key of the model:
\* text that is not base64url, or base64url of arbitrary bits
NotBase64 == [junk |-> "notb64"]
RandomBits == [junk |-> "bits"]

\* Claims with #[serde(deny_unknown_fields)]
DeserializeDenyUnknown(obj) ==
    IF /\ DOMAIN obj = {"exp", "iat", "sub"}
       /\ IsNum(obj["exp"]) /\ IsNum(obj["iat"]) /\ IsStr(obj["sub"])
    THEN Ok(Claims(obj["exp"].num, obj["iat"].num, obj["sub"].str))
    ELSE Err("Json")

\* Claims with #[serde(default)] on iat
DeserializeIatDefault(obj) ==
    IF /\ {"exp", "sub"} \subseteq DOMAIN obj
       /\ IsNum(obj["exp"]) /\ IsStr(obj["sub"])
       /\ "iat" \in DOMAIN obj => IsNum(obj["iat"])
    THEN Ok(Claims(obj["exp"].num, IF "iat" \in DOMAIN obj THEN obj["iat"].num ELSE 0,
                   obj["sub"].str))
    ELSE Err("Json")

\* serde deserialisation of a JSON object into Claims: exp, iat and sub are
\* mandatory (no Option, no #[serde(default)]), unknown members are ignored
Deserialize(obj) ==
    IF /\ {"exp", "iat", "sub"} \subseteq DOMAIN obj
       /\ IsNum(obj["exp"]) /\ IsNum(obj["iat"]) /\ IsStr(obj["sub"])
    THEN Ok(Claims(obj["exp"].num, obj["iat"].num, obj["sub"].str))
    ELSE Err("Json")

\* a verifier that decodes the signature segment and never compares it
VerifySignatureUnchecked(token, pub) ==
    IF token.sig = NotBase64 THEN Err("Base64") ELSE Ok(TRUE)

\* crypto::verify: the signature segment must decode and must be the RS256
\* signature of the public key's pair over the presented header and payload
VerifySignature(token, pub) ==
    IF token.sig = NotBase64 THEN Err("Base64")
    ELSE Ok(token.sig = Sign(pub, token.header, token.payload))

\* validation of the exp claim with leeway at clock reading t
IsExpired(exp, leeway, t) == exp < t - leeway

\* a decode whose validation admits every algorithm of the library
DecodeAnyAlgorithm(token, pub, leeway, t) ==
    IF token.nseg # 3 THEN Err("InvalidToken")
    ELSE IF token.header.alg \notin KnownAlgorithms THEN Err("Json")
    ELSE LET v == VerifySignature(token, pub)
         IN  IF IsErr(v) THEN v
             ELSE IF ~v.ok THEN Err("InvalidSignature")
             ELSE LET data == Deserialize(token.payload)
                  IN  IF IsErr(data) THEN data
                      ELSE IF IsExpired(data.ok.exp, leeway, t) THEN Err("ExpiredSignature")
                      ELSE data

\* a decode that looks at the expiry of the payload before the signature
DecodeExpiryFirst(token, pub, leeway, t) ==
    IF token.nseg # 3 THEN Err("InvalidToken")
    ELSE IF token.header.alg \notin KnownAlgorithms THEN Err("Json")
    ELSE IF token.header.alg # ALGORITHM THEN Err("InvalidAlgorithm")
    ELSE LET data == Deserialize(token.payload)
             v == VerifySignature(token, pub)
         IN  IF IsOk(data) /\ IsExpired(data.ok.exp, leeway, t) THEN Err("ExpiredSignature")
             ELSE IF IsErr(v) THEN v
             ELSE IF ~v.ok THEN Err("InvalidSignature")
             ELSE data

\* decode::<Claims>(token, key, validation) with Validation::new(ALGORITHM),
\* validate_exp = true and the helper's leeway, at clock reading t
Decode(token, pub, leeway, t) ==
    IF token.nseg # 3 THEN Err("InvalidToken")
    ELSE IF token.header.alg \notin KnownAlgorithms THEN Err("Json")
    ELSE IF token.header.alg # ALGORITHM THEN Err("InvalidAlgorithm")
    ELSE LET v == VerifySignature(token, pub)
         IN  IF IsErr(v) THEN v
             ELSE IF ~v.ok THEN Err("InvalidSignature")
             ELSE LET data == Deserialize(token.payload)
                  IN  IF IsErr(data) THEN data
                      ELSE IF IsExpired(data.ok.exp, leeway, t) THEN Err("ExpiredSignature")
                      ELSE data

\* validate_token(token) at clock reading t
ValidateResult(h, token, t) ==
    IF ~IsSome(h.pub_key) THEN Panic(PUB_KEY_ABSENT)
    ELSE LET data == Decode(token, h.pub_key.some, h.leeway, t)
         IN  IF IsErr(data) THEN data ELSE Ok(data.ok.sub)

validate_token(token) ==
    /\ presented' = Some(token)
    /\ valAt' = now
    /\ valResult' = ValidateResult(helper, token, now)
    /\ UNCHANGED <<helper, now, subjectIn, issuedAt, genResult>>

\* the wall clock advances by one second
Tick ==
    /\ now < MaxClock
    /\ now' = now + 1
    /\ UNCHANGED <<helper, subjectIn, issuedAt, genResult, presented, valAt, valResult>>

(***************************** tokens **************************************)
\* a JSON object with the members given (absent ones are None)
Object(exp, iat, sub, extra) ==
    LET dom == {n \in {"exp", "iat", "sub", "role"} :
                  \/ n = "exp" /\ exp # None
                  \/ n = "iat" /\ iat # None
                  \/ n = "sub" /\ sub # None
                  \/ n = "role" /\ extra}
    IN  [n \in dom |-> CASE n = "exp" -> exp
                         [] n = "iat" -> iat
                         [] n = "sub" -> sub
                         [] n = "role" -> Str("admin")]

OtherSubject(s) == IF s = "" THEN "user_123" ELSE ""

\* the payloads a third party makes from a payload: another subject, a later
\* expiry, a member removed
AlteredPayloads(pl) ==
    {[pl EXCEPT !["sub"] = Str(OtherSubject(pl["sub"].str))],
     [pl EXCEPT !["exp"] = Num(pl["exp"].num + 1)],
     [n \in DOMAIN pl \ {"exp"} |-> pl[n]]}

\* the signatures a third party makes for a token: arbitrary bits, text that
\* is no base64url, a signature by its own key pair B
AlteredSignatures(tok) ==
    {RandomBits, NotBase64, Sign("B", tok.header, tok.payload)}

\* what may be presented for an issued token: the token, and the tokens
\* obtained from it by altering one segment
Presentable(tok) ==
    {tok}
    \cup {[tok EXCEPT !.payload = p] : p \in AlteredPayloads(tok.payload)}
    \cup {[tok EXCEPT !.sig = s] : s \in AlteredSignatures(tok)}
    \cup {[tok EXCEPT !.header = Header(a)] : a \in {"none", "HS256"}}

\* arbitrary tokens: any header alg, any payload, signed over their own header
\* and payload by either key pair, or not signed
Algs == {"RS256", "RS384", "HS256", "none"}
ExpValues == {None, Str("soon")} \cup {Num(n) : n \in 1..MaxExpiry}
IatValues == {None, Num(0)}
SubValues == {None} \cup {Str(s) : s \in Subjects}
Payloads == {Object(e, i, s, x) : e \in ExpValues, i \in IatValues, s \in SubValues, x \in BOOLEAN}
TokenUniverse ==
    {[nseg |-> 2, header |-> Header(ALGORITHM), payload |-> Object(None, None, None, FALSE),
      sig |-> NotBase64]}
    \cup {[nseg |-> 3, header |-> Header(a), payload |-> p, sig |-> Sign(k, Header(a), p)] :
            a \in Algs, p \in Payloads, k \in KeyPairs}
    \cup {[nseg |-> 3, header |-> Header(a), payload |-> p, sig |-> NotBase64] :
            a \in Algs, p \in Payloads}

(************************** specifications *********************************)
Helpers ==
    [pvt_key_secret : {None, Some(PVT_KEY_SECRET), Some("wrong")},
     expiry_secs : 0..MaxExpiry,
     leeway : 0..MaxLeeway,
     encrypted_pvt_key : {None, Some(EncryptedPem("A", PVT_KEY_SECRET)), Some(MalformedPem)},
     pub_key : {None, Some("A"), Some("B")}]

Idle ==
    /\ now = 0
    /\ subjectIn = ""
    /\ issuedAt = 0
    /\ genResult = None
    /\ presented = None
    /\ valAt = 0
    /\ valResult = None

\* the token lifecycle: any helper, tokens it issued, and alterations of them
Init ==
    /\ helper \in Helpers
    /\ Idle

Issue == \E subject \in Subjects, d \in 0..MaxDelay :
    /\ now + d <= MaxClock
    /\ generate_token(subject, d)

Verify ==
    /\ IsOk(genResult)
    /\ \E tok \in Presentable(genResult.ok) : validate_token(tok)

Next ==
    \/ Tick
    \/ Issue
    \/ Verify

Spec == Init /\ [][Next]_vars

\* the verifier alone against arbitrary tokens
InitV ==
    /\ helper \in {h \in Helpers : h.pub_key = Some("A") /\ h.pvt_key_secret = None
                                   /\ h.encrypted_pvt_key = None /\ h.expiry_secs = 0}
    /\ Idle

VerifyAny == \E tok \in TokenUniverse : validate_token(tok)

NextV ==
    \/ Tick
    \/ VerifyAny

SpecV == InitV /\ [][NextV]_vars

\* the issuer alone over the whole range of expiry_secs and of clock readings
ClockReadings == {0, 1, MaxClock}

InitNum ==
    /\ helper \in [pvt_key_secret : {Some(PVT_KEY_SECRET)},
                   expiry_secs : 0..UsizeMax,
                   leeway : {0},
                   encrypted_pvt_key : {Some(EncryptedPem("A", PVT_KEY_SECRET))},
                   pub_key : {Some("A")}]
    /\ now \in ClockReadings
    /\ subjectIn = ""
    /\ issuedAt = 0
    /\ genResult = None
    /\ presented = None
    /\ valAt = 0
    /\ valResult = None

IssueNum == generate_token("user_123", 0)

NextNum == IssueNum

SpecNum == InitNum /\ [][NextNum]_vars

(****************************** claims *************************************)
\* the error kinds of the error taxonomy, by the library error they name
ErrorKind(e) ==
    CASE e \in {"InvalidToken", "Base64", "Json"} -> "MalformedTokenError"
      [] e = "InvalidAlgorithm" -> "AlgorithmMismatchError"
      [] e = "InvalidSignature" -> "SignatureError"
      [] e = "ExpiredSignature" -> "ExpiredError"
      [] e = "Pkcs8" -> "KeyMaterialError"
      [] OTHER -> "Unknown"

\* the kind of a result: "Ok", "Panic" or the kind of its error
KindOf(r) == IF IsOk(r) THEN "Ok" ELSE IF IsPanic(r) THEN "Panic" ELSE ErrorKind(r.err)

\* the issued token was presented unaltered to validate_token
IssuedPresented == IsOk(genResult) /\ presented = Some(genResult.ok)

\* the helper verifies with the public key of the pair it signs with
MatchingKeys == IsOk(genResult) /\ helper.pub_key = Some(genResult.ok.sig.signer)

ExpiryBoundary ==
    (IssuedPresented /\ MatchingKeys) =>
        LET last == genResult.ok.payload["iat"].num + helper.expiry_secs + helper.leeway
        IN  /\ valAt <= last => valResult = Ok(subjectIn)
            /\ valAt > last => KindOf(valResult) = "ExpiredError"

\* C3: config guard. generate_token without pass-phrase or encrypted key, and
\* validate_token without public key, return an error value and do not panic.
ConfigGuard ==
    /\ (genResult # None /\ (helper.pvt_key_secret = None \/ helper.encrypted_pvt_key = None))
          => IsErr(genResult)
    /\ (valResult # None /\ helper.pub_key = None) => IsErr(valResult)

\* C5: single clock sample. Every issued token has exp = iat + expiry_secs.
SingleClockSample ==
    IsOk(genResult) =>
        genResult.ok.payload["exp"].num = genResult.ok.payload["iat"].num + helper.expiry_secs

\* C10: expiry arithmetic. For every expiry_secs of the word and every clock
\* reading generate_token does not panic, and the exp it emits is the clock
\* reading plus expiry_secs and is not smaller than iat.
ExpiryArithmetic ==
    genResult # None =>
        /\ IsOk(genResult)
        /\ genResult.ok.payload["exp"].num = issuedAt + helper.expiry_secs
        /\ genResult.ok.payload["exp"].num >= genResult.ok.payload["iat"].num

SignedByHelperKey(tok) ==
    /\ tok.nseg = 3
    /\ IsSome(helper.pub_key)
    /\ tok.sig = Sign(helper.pub_key.some, tok.header, tok.payload)

\* the payload carries sub, iat and a numeric exp not yet expired at valAt
FullAndUnexpired(pl) ==
    /\ {"exp", "iat", "sub"} \subseteq DOMAIN pl
    /\ IsNum(pl["exp"])
    /\ valAt <= pl["exp"].num + helper.leeway

TamperResistance ==
    /\ (/\ IsOk(genResult) /\ IsSome(presented)
        /\ IsOk(ValidateResult(helper, genResult.ok, valAt))
        /\ presented.some \in Presentable(genResult.ok)
        /\ presented.some.header = genResult.ok.header
        /\ presented.some # genResult.ok)
       => KindOf(valResult) \in {"SignatureError", "MalformedTokenError"}
    /\ (IsSome(presented) /\ IsOk(valResult)) => SignedByHelperKey(presented.some)

\* the subject of an accepted token replaced, and the altered token refused
TamperResistanceWitness ==
    /\ IsOk(genResult) /\ IsSome(presented)
    /\ IsOk(ValidateResult(helper, genResult.ok, valAt))
    /\ presented.some = [genResult.ok EXCEPT !.payload["sub"] = Str(OtherSubject(subjectIn))]
    /\ valResult = Err("InvalidSignature")

\* C7: required and unknown claims. A correctly signed RS256 token without exp
\* or without sub is refused with MalformedTokenError; a correctly signed,
\* unexpired RS256 token with sub, iat, exp and a further unknown claim is
\* accepted and its sub returned.
RequiredAndUnknownClaims ==
    (/\ IsSome(presented)
     /\ SignedByHelperKey(presented.some)
     /\ presented.some.header.alg = ALGORITHM)
    => LET pl == presented.some.payload
       IN  /\ ("exp" \notin DOMAIN pl \/ "sub" \notin DOMAIN pl)
                 => KindOf(valResult) = "MalformedTokenError"
           /\ (/\ FullAndUnexpired(pl) /\ IsNum(pl["iat"]) /\ IsStr(pl["sub"])
               /\ "role" \in DOMAIN pl)
                 => valResult = Ok(pl["sub"].str)

\* a correctly signed token with an unknown claim accepted
RequiredAndUnknownClaimsWitness ==
    /\ IsSome(presented)
    /\ SignedByHelperKey(presented.some)
    /\ presented.some.header.alg = ALGORITHM
    /\ FullAndUnexpired(presented.some.payload)
    /\ "role" \in DOMAIN presented.some.payload
    /\ valResult = Ok("user_123")

\* C9: iat is mandatory. A correctly signed, unexpired RS256 token with sub and
\* exp and without iat is refused with an error.
IatMandatory ==
    (/\ IsSome(presented)
     /\ SignedByHelperKey(presented.some)
     /\ presented.some.header.alg = ALGORITHM
     /\ {"exp", "sub"} \subseteq DOMAIN presented.some.payload
     /\ IsNum(presented.some.payload["exp"])
     /\ valAt <= presented.some.payload["exp"].num + helper.leeway
     /\ "iat" \notin DOMAIN presented.some.payload)
    => IsErr(valResult)

\* such a token, refused while decoding its payload
IatMandatoryWitness ==
    /\ IsSome(presented)
    /\ SignedByHelperKey(presented.some)
    /\ presented.some.header.alg = ALGORITHM
    /\ DOMAIN presented.some.payload = {"exp", "sub"}
    /\ IsNum(presented.some.payload["exp"])
    /\ valAt <= presented.some.payload["exp"].num + helper.leeway
    /\ valResult = Err("Json")

\* the checks of the validator on a presented token, at the time it was validated
StructureOk(tok) == tok.nseg = 3
AlgOk(tok) == tok.header.alg = ALGORITHM
ExpOk(tok) == "exp" \in DOMAIN tok.payload /\ IsNum(tok.payload["exp"])
IatOk(tok) == "iat" \in DOMAIN tok.payload /\ IsNum(tok.payload["iat"])
SubOk(tok) == "sub" \in DOMAIN tok.payload /\ IsStr(tok.payload["sub"])
Unexpired(tok) == ExpOk(tok) => valAt <= tok.payload["exp"].num + helper.leeway

\* the error kinds of the header step and of the signature step
AlgStepKinds(tok) ==
    IF tok.header.alg \in KnownAlgorithms THEN {"AlgorithmMismatchError"}
    ELSE {"AlgorithmMismatchError", "MalformedTokenError"}
SignatureStepKinds(tok) ==
    IF tok.sig = NotBase64 THEN {"MalformedTokenError"} ELSE {"SignatureError"}

Step(passes, kinds) == [passes |-> passes, kinds |-> kinds]

\* the kinds of the earliest failing step, {"Ok"} when no step fails
EarliestFailure(steps) ==
    IF \A i \in 1..Len(steps) : steps[i].passes THEN {"Ok"}
    ELSE LET i == CHOOSE k \in 1..Len(steps) :
                      ~steps[k].passes /\ \A j \in 1..(k - 1) : steps[j].passes
         IN  steps[i].kinds

\* the six steps in the order first stated
StatedOrder(tok) ==
    << Step(StructureOk(tok), {"MalformedTokenError"}),
       Step(AlgOk(tok), AlgStepKinds(tok)),
       Step(SignedByHelperKey(tok), SignatureStepKinds(tok)),
       Step(ExpOk(tok), {"MalformedTokenError"}),
       Step(Unexpired(tok), {"ExpiredError"}),
       Step(SubOk(tok), {"MalformedTokenError"}) >>

\* the steps in the order of the code: the payload is decoded into Claims,
\* with exp, iat and sub, before expiry is looked at
CodeOrder(tok) ==
    << Step(StructureOk(tok), {"MalformedTokenError"}),
       Step(AlgOk(tok), AlgStepKinds(tok)),
       Step(SignedByHelperKey(tok), SignatureStepKinds(tok)),
       Step(ExpOk(tok) /\ IatOk(tok) /\ SubOk(tok), {"MalformedTokenError"}),
       Step(Unexpired(tok), {"ExpiredError"}) >>

\* C8: validation order, as first stated. A token that fails a check of
\* (1) structure, (2) alg, (3) signature, (4) exp present and numeric,
\* (5) expiry, (6) sub present is refused with the error of the earliest
\* failing step; a correctly signed token both expired and without sub is
\* refused with ExpiredError.
ValidationOrder ==
    (IsSome(presented) /\ EarliestFailure(StatedOrder(presented.some)) # {"Ok"})
    => KindOf(valResult) \in EarliestFailure(StatedOrder(presented.some))

\* C8, amended: the checks are (1) structure, (2) alg, (3) signature, (4) exp,
\* iat and sub present and well typed, (5) expiry; the result is the error of
\* the earliest failing step and the subject when none fails. A token both
\* expired and badly signed is refused with SignatureError, a correctly signed
\* token both expired and without sub with MalformedTokenError.
ValidationOrderAmended ==
    IsSome(presented) =>
        /\ KindOf(valResult) \in EarliestFailure(CodeOrder(presented.some))
        /\ (/\ StructureOk(presented.some) /\ AlgOk(presented.some)
            /\ ~SignedByHelperKey(presented.some) /\ presented.some.sig # NotBase64
            /\ ~Unexpired(presented.some))
              => KindOf(valResult) = "SignatureError"
        /\ (/\ StructureOk(presented.some) /\ AlgOk(presented.some)
            /\ SignedByHelperKey(presented.some)
            /\ ~Unexpired(presented.some) /\ ~SubOk(presented.some))
              => KindOf(valResult) = "MalformedTokenError"

\* a correctly signed RS256 token, expired and without sub, refused as malformed
ValidationOrderWitness ==
    /\ IsSome(presented)
    /\ AlgOk(presented.some) /\ SignedByHelperKey(presented.some)
    /\ ExpOk(presented.some) /\ IatOk(presented.some)
    /\ ~Unexpired(presented.some)
    /\ "sub" \notin DOMAIN presented.some.payload
    /\ valResult = Err("Json")

====
